---- MODULE Spec2Model ----
(***************************************************************************)
(* A model of trains.py: the station catalog built by                      *)
(* Station.map_connections, the train catalog built by                     *)
(* Train.build_catalog, Train.move / Train.reverse, Train.simulate_turn    *)
(* and the path search Station.breadth_first_pathfind.                     *)
(*                                                                         *)
(* Strings of the program are strings here.  A connection is the tuple     *)
(* <<target, line, direction>> the program stores; a connection record of  *)
(* the input is <<from, to, line, direction>>.  Probabilities are tenths   *)
(* (5 stands for 0.5), for the station's delay_constant and for the value  *)
(* of random.random() alike.                                               *)
(***************************************************************************)
EXTENDS Integers, Sequences, FiniteSets, TLC

VARIABLES
    pc,                \* where main() is: "start", "load_failed", "loaded", "crashed", "running"
    stations_list,     \* output of prime_stations: sequence of <<name, delay>>
    connections_list,  \* output of prime_connections: sequence of <<from, to, line, dir>>
    train_count,       \* the number of trains entered in main
    station_catalog,   \* name -> [name, delay_constant, connections]
    train_catalog,     \* sequence of trains, position n holds key str(n)
    seeded,            \* the train catalog as Train.build_catalog returned it
    turns,             \* number of simulate_turn calls made so far
    turn_log,          \* per train, what the last simulate_turn call did with it,
                       \* and the course the train had when the call began
    graph,             \* breadth_first_pathfind: its graph argument
    start,             \* breadth_first_pathfind: its start argument
    goal,              \* breadth_first_pathfind: its goal argument
    queue,             \* breadth_first_pathfind: local queue
    explored,          \* breadth_first_pathfind: local explored
    bfs_pc,            \* breadth_first_pathfind: "idle", "loop" or "done"
    result             \* breadth_first_pathfind: the returned list

sim_vars == <<pc, stations_list, connections_list, train_count, station_catalog,
              train_catalog, seeded, turns, turn_log>>
bfs_vars == <<graph, start, goal, queue, explored, bfs_pc, result>>
vars == <<pc, stations_list, connections_list, train_count, station_catalog,
          train_catalog, seeded, turns, turn_log,
          graph, start, goal, queue, explored, bfs_pc, result>>

----------------------------------------------------------------------------
(* Bounds of the model and the finite input sets.                          *)

MaxRecs == 2
MaxTrains == 1
MaxTurns == 3
MaxEdges == 4

Range(f) == {f[i] : i \in DOMAIN f}

NamePool == <<"A", "C", "B">>
Names == Range(NamePool)
\* a line may carry the name of a station: the input files do not forbid it
Lines == {"L1", "C"}
Courses == {"N", "S"}
Delays == {0, 5}
Samples == {0, 5}


RECURSIVE SeqsUpTo(_, _)
SeqsUpTo(S, n) ==
    IF n = 0 THEN {<<>>}
    ELSE LET shorter == SeqsUpTo(S, n - 1)
         IN  shorter \cup {Append(q, x) : q \in shorter, x \in S}

\* the station files tried: the first k names of a pool, each with a delay
StationLists(pool, delays) ==
    UNION {{[i \in 1..k |-> <<pool[i], d[i]>>] : d \in [1..k -> delays]}
           : k \in 1..Len(pool)}

\* the connection files tried: up to n records over the names of a pool
ConnectionLists(pool, n) ==
    SeqsUpTo(Range(pool) \X Range(pool) \X Lines \X Courses, n)

----------------------------------------------------------------------------
(* Station.build_catalog and Station.map_connections.                      *)

\* Station.__init__
Station(name, delay_constant) ==
    [name |-> name, delay_constant |-> delay_constant, connections |-> <<>>]

\* the dict comprehension: a later row of the same name replaces an earlier one
build_catalog(station_list) ==
    [s \in {station_list[i][1] : i \in DOMAIN station_list} |->
        LET last == CHOOSE i \in DOMAIN station_list :
                        /\ station_list[i][1] = s
                        /\ \A j \in DOMAIN station_list :
                               station_list[j][1] = s => j <= i
        IN  Station(s, station_list[last][2])]

\* catalog[key].connections.append(entry)
AppendConnection(catalog, key, entry) ==
    [catalog EXCEPT ![key].connections = Append(@, entry)]

\* an inverse that keeps the direction of the record
InverseSameDirection(element) == <<element[1], element[3], element[4]>>

\* the inverse of a record: element[0], element[2] and the other direction
InverseOf(element) ==
    <<element[1], element[3], IF element[4] = "S" THEN "N" ELSE "S">>

\* first loop of map_connections, from record i on
RECURSIVE ForwardLoop(_, _, _)
ForwardLoop(catalog, list, i) ==
    IF i > Len(list) THEN catalog
    ELSE ForwardLoop(AppendConnection(catalog, list[i][1], Tail(list[i])), list, i + 1)

\* second loop of map_connections, from record i on
RECURSIVE InverseLoop(_, _, _)
InverseLoop(catalog, list, i) ==
    IF i > Len(list) THEN catalog
    ELSE InverseLoop(AppendConnection(catalog, list[i][2], InverseOf(list[i])), list, i + 1)

\* a load that looks up the from-station only
RaisesKeyErrorFromOnly(stations, connections) ==
    \E i \in DOMAIN connections :
        connections[i][1] \notin DOMAIN build_catalog(stations)

\* catalog[...] raises KeyError for a name that is no station
RaisesKeyError(stations, connections) ==
    LET keys == DOMAIN build_catalog(stations)
    IN  \E i \in DOMAIN connections :
            connections[i][1] \notin keys \/ connections[i][2] \notin keys

\* a load that appends the inverse entries before the forward entries
MapInverseFirst(stations, connections) ==
    ForwardLoop(InverseLoop(build_catalog(stations), connections, 1), connections, 1)

map_connections(stations, connections) ==
    InverseLoop(ForwardLoop(build_catalog(stations), connections, 1), connections, 1)

\* Station.build_graph: for every station the names its connections lead
\* to, in the order of its connection list
build_graph(catalog) ==
    [key \in DOMAIN catalog |->
        [i \in DOMAIN catalog[key].connections |-> catalog[key].connections[i][1]]]

----------------------------------------------------------------------------
(* Train: construction, reverse, move, simulate_turn.                      *)

Train(name, station, line, course) ==
    [name |-> name, station |-> station, line |-> line, course |-> course]

\* line_options of Train.build_catalog: the distinct lines of a station, in order
RECURSIVE LineOptionsFrom(_, _, _)
LineOptionsFrom(connections, i, line_options) ==
    IF i > Len(connections) THEN line_options
    ELSE LineOptionsFrom(connections, i + 1,
            IF connections[i][2] \notin Range(line_options)
            THEN Append(line_options, connections[i][2])
            ELSE line_options)

\* a seeding that falls back on a line when the station has none
LineOptionsOrDefault(catalog, station) ==
    IF catalog[station].connections = <<>> THEN <<"L1">>
    ELSE LineOptionsFrom(catalog[station].connections, 1, <<>>)

LineOptions(catalog, station) ==
    LineOptionsFrom(catalog[station].connections, 1, <<>>)

Opposite(course) == IF course = "N" THEN "S" ELSE "N"

\* a reverse that leaves the course as it is
ReverseKeepsCourse(train) == train

\* Train.reverse
reverse(train) == [train EXCEPT !.course = Opposite(train.course)]

\* Python's `x in connection` on the tuple (target, line, direction)
InTuple(x, connection) == \E k \in DOMAIN connection : connection[k] = x

\* a match that looks for line and course anywhere in a connection, as the
\* for loop of move does
MatchAnywhere(train, catalog) ==
    \E i \in DOMAIN catalog[train.station].connections :
        /\ InTuple(train.line, catalog[train.station].connections[i])
        /\ InTuple(train.course, catalog[train.station].connections[i])

\* match = (self.line, self.course) in connections_data
Match(train, catalog) ==
    LET connections == catalog[train.station].connections
        connections_data == [i \in DOMAIN connections |-> Tail(connections[i])]
    IN  \E i \in DOMAIN connections_data :
            connections_data[i] = <<train.line, train.course>>

\* the test of the for loop of move
Taken(train, connection) ==
    InTuple(train.line, connection) /\ InTuple(train.course, connection)

\* a move that takes over the line of the connection it follows
ArriveOnItsLine(train, connection) ==
    [train EXCEPT !.station = connection[1], !.line = connection[2]]

\* self.station = connection[0]
Arrive(train, connection) == [train EXCEPT !.station = connection[1]]

\* a move that uses up the connection list it reads
CatalogEmptiedAt(catalog, name) == [catalog EXCEPT ![name].connections = <<>>]

\* what move leaves of station_catalog: it reads the connections of
\* self.station, into a new list and in the for loop, and assigns nothing
CatalogAfterMove(catalog, name) == catalog

\* a failed move that puts the course back as it found it
StrandedAsFound(train, turned) == train

\* return False: the train as the test of the course left it, reversed or not
Stranded(train, turned) == turned

\* Train.move: the train after the call, the value returned, the number
\* of calls of reverse it made, and station_catalog after the call
move(train, catalog) ==
    LET match == Match(train, catalog)
        turned == IF match = FALSE THEN reverse(train) ELSE train
        connections == catalog[train.station].connections
        hits == {i \in DOMAIN connections : Taken(turned, connections[i])}
    IN  IF hits # {}
        THEN LET first == CHOOSE i \in hits : \A j \in hits : i <= j
             IN  [train |-> Arrive(turned, connections[first]),
                  ret |-> TRUE,
                  reversals |-> IF match THEN 0 ELSE 1,
                  catalog |-> CatalogAfterMove(catalog, train.station)]
        ELSE [train |-> Stranded(train, turned), ret |-> FALSE,
              reversals |-> IF match THEN 0 ELSE 1,
              catalog |-> CatalogAfterMove(catalog, train.station)]

\* a delay roll against one half, whatever the station's delay_constant
DelayedBelowHalf(delay_constant, sample) == 5 > sample

\* a delay roll that also delays on an equal sample
DelayedOnEqual(delay_constant, sample) == delay_constant >= sample

\* the delay roll of simulate_turn
Delayed(delay_constant, sample) == delay_constant > sample

\* the body of the for loop of simulate_turn for one train
TurnOf(train, catalog, sample) ==
    LET current_location == catalog[train.station]
    IN  IF Delayed(current_location.delay_constant, sample)
        THEN [train |-> train, sample |-> sample, calls |-> 0,
              ret |-> FALSE, reversals |-> 0, catalog |-> catalog]
        ELSE LET m == move(train, catalog)
             IN  [train |-> m.train, sample |-> sample, calls |-> 1,
                  ret |-> m.ret, reversals |-> m.reversals, catalog |-> m.catalog]

\* a loop that gives up the turn at the first move that returns False
LoopEndsOnFailure(turn) == turn.calls = 1 /\ ~turn.ret

\* whether the for loop ends after a train: it has no break and no raise,
\* and drops the value move returns
LoopEnds(turn) == FALSE

\* a train the loop did not come to
NotPolled(train, catalog, sample) ==
    [train |-> train, sample |-> sample, calls |-> 0,
     ret |-> FALSE, reversals |-> 0, catalog |-> catalog]

\* the for loop of simulate_turn from train i on; done holds the turns of
\* the trains before i
RECURSIVE TurnsFrom(_, _, _, _, _)
TurnsFrom(catalog, trains, samples, i, done) ==
    IF i > Len(trains) THEN [catalog |-> catalog, done |-> done]
    ELSE LET turn == TurnOf(trains[i], catalog, samples[i])
         IN  IF LoopEnds(turn)
             THEN [catalog |-> turn.catalog,
                   done |-> [n \in DOMAIN trains |->
                               IF n < i THEN done[n]
                               ELSE IF n = i THEN turn
                               ELSE NotPolled(trains[n], turn.catalog, samples[n])]]
             ELSE TurnsFrom(turn.catalog, trains, samples, i + 1, Append(done, turn))

\* Train.simulate_turn: every train in key order, one sample each; the
\* trains are changed in place, station_catalog is what the calls leave
simulate_turn(catalog, trains, samples) ==
    TurnsFrom(catalog, trains, samples, 1, <<>>)

----------------------------------------------------------------------------
(* main(): load, seed, and the turns asked for from the menu.              *)

NoCatalog == [s \in {} |-> Station(s, 0)]

BfsIdle ==
    /\ graph = NoCatalog
    /\ start = ""
    /\ goal = ""
    /\ queue = <<>>
    /\ explored = <<>>
    /\ bfs_pc = "idle"
    /\ result = <<>>

InitWith(pool, n, delays, counts) ==
    /\ pc = "start"
    /\ stations_list \in StationLists(pool, delays)
    /\ connections_list \in ConnectionLists(pool, n)
    /\ train_count \in counts
    /\ station_catalog = NoCatalog
    /\ train_catalog = <<>>
    /\ seeded = <<>>
    /\ turns = 0
    /\ turn_log = <<>>
    /\ BfsIdle

Init == InitWith(NamePool, MaxRecs, Delays, 1..MaxTrains)

\* two stations without delays, one of them named as a line is, and one
\* record more
InitTwoStations == InitWith(SubSeq(NamePool, 1, 2), MaxRecs + 1, {0}, {1})

\* main, second loop: map_connections returns, or its KeyError is caught
Load ==
    /\ pc = "start"
    /\ \/ /\ ~RaisesKeyError(stations_list, connections_list)
          /\ station_catalog' = map_connections(stations_list, connections_list)
          /\ pc' = "loaded"
       \/ /\ RaisesKeyError(stations_list, connections_list)
          /\ station_catalog' = station_catalog
          /\ pc' = "load_failed"
    /\ UNCHANGED <<stations_list, connections_list, train_count, train_catalog,
                   seeded, turns, turn_log>>
    /\ UNCHANGED bfs_vars

\* main, third loop: Train.build_catalog; random.choice of an empty
\* line_options raises IndexError, which nothing catches
Seed ==
    /\ pc = "loaded"
    /\ \E stations \in [1..train_count -> DOMAIN station_catalog],
          courses \in [1..train_count -> Courses] :
          \/ /\ \E n \in 1..train_count :
                    LineOptions(station_catalog, stations[n]) = <<>>
             /\ pc' = "crashed"
             /\ UNCHANGED <<train_catalog, seeded>>
          \/ /\ \A n \in 1..train_count :
                    LineOptions(station_catalog, stations[n]) # <<>>
             /\ \E lines \in [1..train_count -> Lines] :
                    /\ \A n \in 1..train_count :
                           lines[n] \in Range(LineOptions(station_catalog, stations[n]))
                    /\ train_catalog' =
                           [n \in 1..train_count |->
                               Train(n, stations[n], lines[n], courses[n])]
                    /\ seeded' = train_catalog'
             /\ pc' = "running"
    /\ UNCHANGED <<stations_list, connections_list, train_count, station_catalog,
                   turns, turn_log>>
    /\ UNCHANGED bfs_vars

\* one call of Train.simulate_turn from the menu, the count of the calls
\* left aside
Turn ==
    /\ pc = "running"
    /\ \E samples \in [DOMAIN train_catalog -> Samples] :
        \E after \in {simulate_turn(station_catalog, train_catalog, samples)} :
          LET done == after.done
          IN  /\ train_catalog' = [i \in DOMAIN done |-> done[i].train]
              /\ station_catalog' = after.catalog
              /\ turn_log' = [i \in DOMAIN done |->
                                 [sample |-> done[i].sample, calls |-> done[i].calls,
                                  ret |-> done[i].ret, reversals |-> done[i].reversals,
                                  course |-> train_catalog[i].course]]
    /\ UNCHANGED <<pc, stations_list, connections_list, train_count, seeded>>
    /\ UNCHANGED bfs_vars

\* simulation_menu, choice 1, for the first MaxTurns turns
Step ==
    /\ turns < MaxTurns
    /\ Turn
    /\ turns' = turns + 1

Next == Load \/ Seed \/ Step

Spec == Init /\ [][Next]_vars

\* simulation_menu, choice 1, as often as it is asked for: the menu loop
\* has no last turn, and the count starts again at 1 after MaxTurns
StepOn ==
    /\ Turn
    /\ turns' = IF turns < MaxTurns THEN turns + 1 ELSE 1

NextOn == Load \/ Seed \/ StepOn

\* the stations and records of Init, and turns without end
InitOn == InitWith(NamePool, MaxRecs, Delays, 1..MaxTrains)

\* main goes from the load to the seeding and to the menu; how often a
\* turn is asked for is up to the user
SpecOn == InitOn /\ [][NextOn]_vars /\ WF_vars(Load) /\ WF_vars(Seed)

\* two stations and one train more, for the order of the trains in a step
InitTwoTrains == InitWith(SubSeq(NamePool, 1, 2), MaxRecs, Delays, {MaxTrains + 1})

SpecTwoTrains == InitTwoTrains /\ [][Next]_vars

SpecTwoStations == InitTwoStations /\ [][Next]_vars

----------------------------------------------------------------------------
(* Station.breadth_first_pathfind, one iteration of its while loop per     *)
(* step.  A graph maps each station to the list of its neighbours.         *)

Nodes == {"A", "B", "C", "D"}

\* a graph with one more edge, the last of its station
WithEdge(g, from, to) == [g EXCEPT ![from] = Append(@, to)]

\* the graphs of at most n edges, duplicate edges and self loops included
RECURSIVE GraphsUpTo(_)
GraphsUpTo(n) ==
    IF n = 0 THEN {[s \in Nodes |-> <<>>]}
    ELSE LET smaller == GraphsUpTo(n - 1)
         IN  smaller \cup {WithEdge(g, from, to) :
                               g \in smaller, from \in Nodes, to \in Nodes}

Graphs == GraphsUpTo(MaxEdges)

\* a search that counts its root as explored from the beginning
ExploredFromRoot(root) == <<root>>

\* explored = []
InitialExplored(root) == <<>>

\* queue = [[start]]
InitialQueue(root) == <<<<root>>>>

\* a search that pops the newest path of the queue
PopLast(q) == Len(q)

\* the index queue.pop(0) removes
PopIndex(q) == 1

\* a pop that reads the path and leaves it in the queue
KeepAt(q, k) == q

\* queue.pop(0): the queue without the path it removes
RemoveAt(q, k) == [i \in 1..(Len(q) - 1) |-> IF i < k THEN q[i] ELSE q[i + 1]]

\* a search that returns its list of explored stations when it finds nothing
ReturnedExplored(q, seen) == seen

\* return queue, once the while loop has ended
ReturnedWhenDrained(q, seen) == q

\* a trace that keeps the root only
ExtendedFromRoot(search_path, neighbour) == <<search_path[1], neighbour>>

\* shortest_path = list(search_path); shortest_path.append(neighbour)
Extended(search_path, neighbour) == Append(search_path, neighbour)

\* the neighbours of a station, last one first
ConnectionsBackwards(g, station) ==
    [i \in DOMAIN g[station] |-> g[station][Len(g[station]) + 1 - i]]

\* connections = graph[station]
Connections(g, station) == g[station]

\* the for loop over the neighbours of a station, from neighbour i on: the
\* queue it leaves, and the path it returned, if it returned
RECURSIVE ForNeighbours(_, _, _, _, _)
ForNeighbours(search_path, connections, i, q, target) ==
    IF i > Len(connections)
    THEN [queue |-> q, returned |-> FALSE, path |-> <<>>]
    ELSE LET neighbour == connections[i]
             shortest_path == Extended(search_path, neighbour)
             longer == Append(q, shortest_path)
         IN  IF neighbour = target
             THEN [queue |-> longer, returned |-> TRUE, path |-> shortest_path]
             ELSE ForNeighbours(search_path, connections, i + 1, longer, target)

InitBFS ==
    /\ pc = "start"
    /\ stations_list = <<>>
    /\ connections_list = <<>>
    /\ train_count = 0
    /\ station_catalog = NoCatalog
    /\ train_catalog = <<>>
    /\ seeded = <<>>
    /\ turns = 0
    /\ turn_log = <<>>
    /\ graph \in Graphs
    /\ start \in Nodes
    /\ goal \in Nodes
    /\ queue = InitialQueue(start)
    /\ explored = InitialExplored(start)
    /\ bfs_pc = "loop"
    /\ result = <<>>

\* one pass through the body of `while queue`
BfsIterate ==
    /\ bfs_pc = "loop"
    /\ queue # <<>>
    /\ LET search_path == queue[PopIndex(queue)]
           rest == RemoveAt(queue, PopIndex(queue))
           station == search_path[Len(search_path)]
       IN  \/ /\ station \in Range(explored)
              /\ queue' = rest
              /\ UNCHANGED <<explored, bfs_pc, result>>
           \/ /\ station \notin Range(explored)
              /\ LET run == ForNeighbours(search_path, Connections(graph, station), 1, rest, goal)
                 IN  \/ /\ run.returned
                        /\ queue' = run.queue
                        /\ result' = run.path
                        /\ bfs_pc' = "done"
                        /\ UNCHANGED explored
                     \/ /\ ~run.returned
                        /\ queue' = run.queue
                        /\ explored' = Append(explored, station)
                        /\ UNCHANGED <<bfs_pc, result>>
    /\ UNCHANGED <<graph, start, goal>>
    /\ UNCHANGED sim_vars

\* the queue is empty: the loop ends and the function returns the queue
BfsDrained ==
    /\ bfs_pc = "loop"
    /\ queue = <<>>
    /\ result' = ReturnedWhenDrained(queue, explored)
    /\ bfs_pc' = "done"
    /\ UNCHANGED <<graph, start, goal, queue, explored>>
    /\ UNCHANGED sim_vars

NextBFS == BfsIterate \/ BfsDrained

SpecBFS == InitBFS /\ [][NextBFS]_vars

\* the while loop, once entered, goes on to its next iteration or to its
\* return: nothing else runs while the function does
SpecBFSFair == SpecBFS /\ WF_vars(NextBFS)

----------------------------------------------------------------------------
(* Hop counts of a graph, by sets of stations and not by search.           *)

Successors(g, S) == UNION {Range(g[n]) : n \in S}

\* the stations some walk of exactly k hops from a station of S ends at
RECURSIVE AfterHops(_, _, _)
AfterHops(g, S, k) == IF k = 0 THEN S ELSE Successors(g, AfterHops(g, S, k - 1))

\* the lengths, of one hop or more, of the walks from s to t
HopCounts(g, s, t) ==
    {k \in 1..Cardinality(DOMAIN g) : t \in AfterHops(g, {s}, k)}

MinHops(g, s, t) ==
    CHOOSE k \in HopCounts(g, s, t) : \A j \in HopCounts(g, s, t) : k <= j

IsPath(g, p) == \A i \in 1..(Len(p) - 1) : p[i + 1] \in Range(g[p[i]])

----------------------------------------------------------------------------
(* The station registry after load.                                        *)

Loaded == pc \in {"loaded", "running", "crashed"}

ConnectionsAt(name) == station_catalog[name].connections

\* C2: after load, every input record (A, B, line, dir) has its entry
\* (B, line, dir) in the connection list of A and the reverse entry
\* (A, line, opposite dir) in the connection list of B.
C2_ConnectionSymmetry ==
    Loaded =>
        \A i \in DOMAIN connections_list :
            LET e == connections_list[i]
                other == IF e[4] = "N" THEN "S" ELSE "N"
            IN  /\ <<e[2], e[3], e[4]>> \in Range(ConnectionsAt(e[1]))
                /\ <<e[1], e[3], other>> \in Range(ConnectionsAt(e[2]))

\* a load of two records between different stations, one North and one South
C2_Witness ==
    /\ pc = "loaded"
    /\ Len(connections_list) = 2
    /\ connections_list[1][4] = "N"
    /\ connections_list[2][4] = "S"
    /\ connections_list[1][1] # connections_list[1][2]
    /\ Len(ConnectionsAt(connections_list[1][2])) >= 2

----------------------------------------------------------------------------
(* The path search.                                                        *)

Searched == bfs_pc = "done"

\* C3: for start # goal with goal reachable, the returned path has the
\* minimum number of hops from start to goal.
C3_BfsMinimality ==
    (Searched /\ start # goal /\ HopCounts(graph, start, goal) # {}) =>
        /\ result # <<>>
        /\ Len(result) - 1 = MinHops(graph, start, goal)

\* a search that answered with two hops, from a start with two neighbours,
\* where the goal is three hops away through the start's last neighbour
C3_Witness ==
    /\ Searched
    /\ start # goal
    /\ Len(result) = 3
    /\ Len(graph[start]) = 2
    /\ graph[start][1] # graph[start][2]
    /\ goal \notin AfterHops(graph, {graph[start][2]}, 1)
    /\ goal \in AfterHops(graph, {graph[start][2]}, 2)

\* C8: for start # goal with goal not reachable from start, the search
\* returns the empty list.
C8_BfsEmptiness ==
    (Searched /\ start # goal /\ HopCounts(graph, start, goal) = {}) =>
        result = <<>>

\* an unreachable goal, after a search that explored two stations
C8_Witness ==
    /\ Searched
    /\ start # goal
    /\ HopCounts(graph, start, goal) = {}
    /\ Len(explored) = 2
    /\ result = <<>>

\* a start without connections: the queue drains at once
C8_WitnessNoConnections ==
    /\ Searched
    /\ start # goal
    /\ graph[start] = <<>>
    /\ result = <<>>

\* C9 as stated: when start = goal the search returns the empty list.
C9_TrivialQueryEmpty ==
    (Searched /\ start = goal) => result = <<>>

\* C9, amended: when start = goal the search returns the empty list exactly
\* when no walk of one hop or more leads from start back to start; otherwise
\* it returns a shortest such walk, from start to start, and never the
\* one-station path.
C9_TrivialQuery ==
    (Searched /\ start = goal) =>
        IF HopCounts(graph, start, start) = {}
        THEN result = <<>>
        ELSE /\ Len(result) - 1 = MinHops(graph, start, start)
             /\ result[1] = start
             /\ result[Len(result)] = start
             /\ IsPath(graph, result)

\* a query from a station to itself that came back with a round trip
C9_Witness ==
    /\ Searched
    /\ start = goal
    /\ Len(result) = 3

\* a query from a station to itself that came back empty
C9_WitnessEmpty ==
    /\ Searched
    /\ start = goal
    /\ graph[start] # <<>>
    /\ result = <<>>

----------------------------------------------------------------------------
(* Trains: seeding, move and simulate_turn.                                *)

\* the step just taken was a call of simulate_turn
Stepped == turns' = turns + 1

\* the connections at a station that carry a line, in a direction
OnLine(name, line) ==
    {k \in DOMAIN ConnectionsAt(name) : ConnectionsAt(name)[k][2] = line}

OnLineTowards(name, line, course) ==
    {k \in OnLine(name, line) : ConnectionsAt(name)[k][3] = course}

\* C1: in every state reached by seeding and stepping, every train's
\* station has a connection whose line is the train's line.
C1_TrainLineInvariant ==
    pc = "running" =>
        \A n \in DOMAIN train_catalog :
            OnLine(train_catalog[n].station, train_catalog[n].line) # {}

\* C4: whenever move returns True, the train's new station is the target of
\* the first connection of the old station whose line is the train's line
\* and whose direction is the train's course after the call.
C4_MovementTarget ==
    [][Stepped =>
        \A n \in DOMAIN train_catalog :
            (turn_log'[n].calls = 1 /\ turn_log'[n].ret) =>
                LET old == train_catalog[n]
                    new == train_catalog'[n]
                    fit == OnLineTowards(old.station, old.line, new.course)
                IN  /\ fit # {}
                    /\ \E k \in fit :
                           /\ \A j \in fit : k <= j
                           /\ new.station = ConnectionsAt(old.station)[k][1]
    ]_vars

\* C5: a call of move reverses the course once exactly when the train's
\* station has no connection with the train's line and course, and leaves
\* the course alone when it has one.
C5_MovementReversal ==
    [][Stepped =>
        \A n \in DOMAIN train_catalog :
            turn_log'[n].calls = 1 =>
                LET old == train_catalog[n]
                    new == train_catalog'[n]
                    none == OnLineTowards(old.station, old.line, old.course) = {}
                IN  /\ none => /\ turn_log'[n].reversals = 1
                               /\ new.course # old.course
                    /\ ~none => /\ turn_log'[n].reversals = 0
                                /\ new.course = old.course
    ]_vars

\* a train that reversed at the end of its line and moved back
C5_Witness ==
    /\ pc = "running"
    /\ turn_log # <<>>
    /\ turn_log[1].calls = 1
    /\ turn_log[1].reversals = 1
    /\ turn_log[1].ret
    /\ train_catalog[1].course # seeded[1].course

\* C6: if the train's station has no connection on the train's line, in
\* either direction, move returns False and the station is unchanged.
C6_MovementFailure ==
    [][Stepped =>
        \A n \in DOMAIN train_catalog :
            (/\ turn_log'[n].calls = 1
             /\ OnLine(train_catalog[n].station, train_catalog[n].line) = {}) =>
                /\ ~turn_log'[n].ret
                /\ train_catalog'[n].station = train_catalog[n].station
    ]_vars

\* C7: within a step, a train whose sample is below the delay probability
\* of its station is skipped and keeps station, line and course; any other
\* train has move called on it once.
C7_DelaySemantics ==
    [][Stepped =>
        \A n \in DOMAIN train_catalog :
            LET old == train_catalog[n]
                delay == station_catalog[old.station].delay_constant
            IN  /\ turn_log'[n].sample < delay =>
                       /\ turn_log'[n].calls = 0
                       /\ train_catalog'[n] = old
                /\ turn_log'[n].sample >= delay =>
                       /\ turn_log'[n].calls = 1
                       /\ train_catalog'[n] = move(old, station_catalog).train
    ]_vars

\* a train that moved in the first turn and was delayed in the second
C7_Witness ==
    /\ pc = "running"
    /\ turns = 2
    /\ train_catalog[1].station # seeded[1].station
    /\ turn_log[1].calls = 0
    /\ turn_log[1].sample
           < station_catalog[train_catalog[1].station].delay_constant

\* a train that rolled exactly the delay probability of its station, and moved
C7_WitnessEqual ==
    /\ pc = "running"
    /\ turns = 1
    /\ turn_log[1].sample = station_catalog[seeded[1].station].delay_constant
    /\ turn_log[1].sample > 0
    /\ turn_log[1].calls = 1
    /\ train_catalog[1].station # seeded[1].station

\* the network A - B - C on line L1, without delays, and a train at A
Scenario ==
    /\ pc = "running"
    /\ stations_list = <<<<"A", 0>>, <<"C", 0>>, <<"B", 0>>>>
    /\ connections_list = <<<<"A", "B", "L1", "N">>, <<"B", "C", "L1", "N">>>>
    /\ seeded = <<Train(1, "A", "L1", "N")>>

\* C10: in the scenario the train is at B after one step, at C with course
\* N after two, and at B with course S after three.
C10_Scenario ==
    Scenario =>
        /\ turns = 1 => train_catalog[1].station = "B"
        /\ turns = 2 => /\ train_catalog[1].station = "C"
                        /\ train_catalog[1].course = "N"
        /\ turns = 3 => /\ train_catalog[1].station = "B"
                        /\ train_catalog[1].course = "S"

\* the scenario after its third step
C10_Witness ==
    /\ Scenario
    /\ turns = 3
    /\ train_catalog[1].station = "B"

\* every station of the registry has delay_constant 0
AllDelaysZero ==
    \A name \in DOMAIN station_catalog : station_catalog[name].delay_constant = 0

\* C11: when every station's delay probability is 0, no train is skipped:
\* every step calls move on every train, whatever the samples.
C11_ZeroDelay ==
    [][(Stepped /\ AllDelaysZero) =>
        \A n \in DOMAIN train_catalog :
            /\ turn_log'[n].calls = 1
            /\ train_catalog'[n] = move(train_catalog[n], station_catalog).train
    ]_vars

\* three stations without delay, and a train that rolled the smallest
\* sample in its second turn and moved
C11_Witness ==
    /\ pc = "running"
    /\ AllDelaysZero
    /\ Cardinality(DOMAIN station_catalog) = 3
    /\ turns = 2
    /\ turn_log[1].sample = 0
    /\ turn_log[1].calls = 1
    /\ turn_log[1].ret

\* the other direction
Flip(dir) == IF dir = "N" THEN "S" ELSE "N"

\* the entries the records give a station, forward ones and inverse ones,
\* each kind in the order of the input
ForwardEntries(name) ==
    LET own == SelectSeq(connections_list, LAMBDA e : e[1] = name)
    IN  [i \in DOMAIN own |-> <<own[i][2], own[i][3], own[i][4]>>]

InverseEntries(name) ==
    LET own == SelectSeq(connections_list, LAMBDA e : e[2] = name)
    IN  [i \in DOMAIN own |-> <<own[i][1], own[i][3], Flip(own[i][4])>>]

\* the entries of a station when every record, in turn, gives its forward
\* entry and then its inverse entry
RECURSIVE InterleavedEntries(_, _)
InterleavedEntries(name, i) ==
    IF i = 0 THEN <<>>
    ELSE LET e == connections_list[i]
             fwd == IF e[1] = name THEN <<<<e[2], e[3], e[4]>>>> ELSE <<>>
             inv == IF e[2] = name THEN <<<<e[1], e[3], Flip(e[4])>>>> ELSE <<>>
         IN  InterleavedEntries(name, i - 1) \o fwd \o inv

\* C12 as stated: after load each station's connection list holds forward
\* and inverse entries interleaved record by record.
C12_LoadOrderInterleaved ==
    Loaded =>
        \A name \in DOMAIN station_catalog :
            ConnectionsAt(name) = InterleavedEntries(name, Len(connections_list))

\* C12, amended: after load each station's connection list holds the
\* forward entries of all records, in input order, and after them the
\* inverse entries of all records, in input order.
C12_LoadOrder ==
    Loaded =>
        \A name \in DOMAIN station_catalog :
            ConnectionsAt(name) = ForwardEntries(name) \o InverseEntries(name)

\* a station that is the target of the first record and the origin of the
\* second: its forward entry, of the later record, comes first
C12_Witness ==
    /\ pc = "loaded"
    /\ Len(connections_list) = 2
    /\ connections_list[1][2] = connections_list[2][1]
    /\ connections_list[1][1] # connections_list[1][2]
    /\ connections_list[2][1] # connections_list[2][2]
    /\ ConnectionsAt(connections_list[2][1])[1] = Tail(connections_list[2])

\* the names of the stations file
ListedNames == {stations_list[i][1] : i \in DOMAIN stations_list}

\* some record names a station that the stations file does not list
NamesUnknownStation ==
    \E i \in DOMAIN connections_list :
        \/ connections_list[i][1] \notin ListedNames
        \/ connections_list[i][2] \notin ListedNames

\* C13: load fails and yields no registry whenever a record names a
\* from-station or a to-station that is not among the loaded stations; when
\* load succeeds every connection target is a registered station.
C13_ReferentialIntegrity ==
    /\ (pc # "start" /\ NamesUnknownStation) =>
           /\ pc = "load_failed"
           /\ DOMAIN station_catalog = {}
    /\ Loaded =>
           \A name \in DOMAIN station_catalog :
               \A k \in DOMAIN ConnectionsAt(name) :
                   ConnectionsAt(name)[k][1] \in DOMAIN station_catalog

\* a failed load whose first record is sound and whose second record names
\* a known from-station and an unknown to-station
C13_Witness ==
    /\ pc = "load_failed"
    /\ Len(connections_list) = 2
    /\ connections_list[1][1] \in ListedNames
    /\ connections_list[1][2] \in ListedNames
    /\ connections_list[2][1] \in ListedNames
    /\ connections_list[2][2] \notin ListedNames

\* C14: no step changes the station registry: every station keeps its
\* name, its delay probability and its connection list, and the loaded
\* lists stay as they are; only the trains change.
C14_RegistryReadOnly ==
    [][Stepped =>
        /\ station_catalog' = station_catalog
        /\ stations_list' = stations_list
        /\ connections_list' = connections_list
    ]_vars

\* a second step in which the train moved, over a registry with connections
C14_Witness ==
    /\ pc = "running"
    /\ turns = 2
    /\ turn_log[1].calls = 1
    /\ turn_log[1].ret
    /\ ConnectionsAt(train_catalog[1].station) # <<>>

\* C15: after any number of steps the trains are the seeded ones, each
\* with the name and the line it was seeded with; only station and
\* course differ.
C15_TrainFrame ==
    pc = "running" =>
        /\ DOMAIN train_catalog = DOMAIN seeded
        /\ \A n \in DOMAIN train_catalog :
               /\ train_catalog[n].name = seeded[n].name
               /\ train_catalog[n].line = seeded[n].line

\* a train that has changed both its station and its course
C15_Witness ==
    /\ pc = "running"
    /\ turns = MaxTurns
    /\ train_catalog[1].station # seeded[1].station
    /\ train_catalog[1].course # seeded[1].course
    /\ train_catalog[1].line = seeded[1].line

\* C17: seeding returns no train at a station without connections and no
\* train whose line is not a line of its station; it ends in an error
\* only when some station has no connections.
C17_SeedingGuard ==
    /\ pc = "running" =>
           \A n \in DOMAIN seeded :
               /\ ConnectionsAt(seeded[n].station) # <<>>
               /\ OnLine(seeded[n].station, seeded[n].line) # {}
    /\ pc = "crashed" =>
           /\ train_catalog = <<>>
           /\ \E name \in DOMAIN station_catalog : ConnectionsAt(name) = <<>>

\* seeding failed over a registry where one station has no connections
\* and another has some
C17_Witness ==
    /\ pc = "crashed"
    /\ \E name \in DOMAIN station_catalog : ConnectionsAt(name) = <<>>
    /\ \E name \in DOMAIN station_catalog : ConnectionsAt(name) # <<>>

\* C20: no call of move in any step returns False.
C20_NoFailedMove ==
    pc = "running" =>
        \A n \in DOMAIN turn_log : turn_log[n].calls = 1 => turn_log[n].ret

\* C16: in a step where move returns False for a train, the program goes
\* on, that train is at the station it was at, and every later train is
\* polled: it is skipped or moved as its own sample decides.
C16_StepToleratesFailure ==
    [][Stepped =>
        \A n \in DOMAIN train_catalog :
            (turn_log'[n].calls = 1 /\ ~turn_log'[n].ret) =>
                /\ pc' = "running"
                /\ train_catalog'[n].station = train_catalog[n].station
                /\ \A m \in DOMAIN train_catalog :
                       m > n =>
                           LET old == train_catalog[m]
                               sample == turn_log'[m].sample
                               delay == station_catalog[old.station].delay_constant
                           IN  IF delay > sample
                               THEN /\ turn_log'[m].calls = 0
                                    /\ train_catalog'[m] = old
                               ELSE /\ turn_log'[m].calls = 1
                                    /\ train_catalog'[m]
                                           = move(old, station_catalog).train
    ]_vars

\* a step in which the move of the first train failed and the second
\* train moved to another station
C16_Witness ==
    /\ pc = "running"
    /\ Len(train_catalog) = 2
    /\ turns = 2
    /\ turn_log[1].calls = 1
    /\ ~turn_log[1].ret
    /\ turn_log[2].calls = 1
    /\ turn_log[2].ret
    /\ train_catalog[2].station = "C"

\* the registry of the network A - B - C on line L1
LinearNetwork ==
    map_connections(<<<<"A", 0>>, <<"B", 0>>, <<"C", 0>>>>,
                    <<<<"A", "B", "L1", "N">>, <<"B", "C", "L1", "N">>>>)

\* a graph over the stations of the search: the graph of a registry, and
\* no neighbours for the stations the registry does not have
OnNodes(g) == [n \in Nodes |-> IF n \in DOMAIN g THEN g[n] ELSE <<>>]

\* C18: every non-empty result of a search begins with start, ends with
\* goal, and each station of it is a neighbour of the one before; on the
\* graph of the network A - B - C the search from A to C returns [A, B, C].
C18_PathValidity ==
    /\ (Searched /\ result # <<>>) =>
           /\ result[1] = start
           /\ result[Len(result)] = goal
           /\ IsPath(graph, result)
    /\ (Searched /\ graph = OnNodes(build_graph(LinearNetwork))
                 /\ start = "A" /\ goal = "C") =>
           result = <<"A", "B", "C">>

\* the search from A to C on the graph of the network A - B - C
C18_Witness ==
    /\ Searched
    /\ graph = OnNodes(build_graph(LinearNetwork))
    /\ graph["B"] = <<"C", "A">>
    /\ start = "A"
    /\ goal = "C"
    /\ result = <<"A", "B", "C">>

\* the stations along the walk that starts at s and takes, at each
\* station, the neighbour at the next position of ps; <<>> when a position
\* is none of the station's
RECURSIVE StationsBy(_, _, _)
StationsBy(g, s, ps) ==
    IF Len(ps) = 0 THEN <<s>>
    ELSE IF ps[1] \notin DOMAIN g[s] THEN <<>>
    ELSE LET rest == StationsBy(g, g[s][ps[1]], Tail(ps))
         IN  IF rest = <<>> THEN <<>> ELSE <<s>> \o rest

MaxDegree(g) ==
    CHOOSE d \in 0..MaxEdges + 1 :
        /\ \A n \in DOMAIN g : Len(g[n]) <= d
        /\ \E n \in DOMAIN g : Len(g[n]) = d

\* the neighbour-position sequences of the minimum-hop paths from s to t
MinHopWalks(g, s, t) ==
    {ps \in [1..MinHops(g, s, t) -> 1..MaxDegree(g)] :
        LET walk == StationsBy(g, s, ps)
        IN  walk # <<>> /\ walk[Len(walk)] = t}

\* lexicographic order of two sequences of one length
LexLeq(p, q) ==
    \/ p = q
    \/ \E i \in DOMAIN p :
           /\ p[i] < q[i]
           /\ \A j \in 1..(i - 1) : p[j] = q[j]

\* C19: the path a search returns is the minimum-hop path from start to
\* goal whose sequence of neighbour positions is lexicographically
\* smallest.
C19_TieBreak ==
    (Searched /\ start # goal /\ HopCounts(graph, start, goal) # {}) =>
        \E ps \in MinHopWalks(graph, start, goal) :
            /\ StationsBy(graph, start, ps) = result
            /\ \A q \in MinHopWalks(graph, start, goal) : LexLeq(ps, q)

\* two minimum-hop paths of two hops through different stations, the
\* returned one through the first neighbour of start
C19_Witness ==
    /\ Searched
    /\ start # goal
    /\ Len(result) = 3
    /\ result[2] = graph[start][1]
    /\ \E q \in MinHopWalks(graph, start, goal) :
           StationsBy(graph, start, q)[2] # result[2]

\* a call of move for train n, in the step that led to this state or in
\* the step being taken, that returned False
FailedBefore(n) == turns > 0 /\ turn_log[n].calls = 1 /\ ~turn_log[n].ret

\* C23: a move that returns False leaves the train at its station and on
\* its line, with the opposite of the course it had before the call; when
\* the moves of two steps in a row return False, the train has the course
\* it had before the first of them.
C23_FailedMoveSideEffect ==
    [][Stepped =>
        \A n \in DOMAIN train_catalog :
            (turn_log'[n].calls = 1 /\ ~turn_log'[n].ret) =>
                /\ train_catalog'[n].station = train_catalog[n].station
                /\ train_catalog'[n].line = train_catalog[n].line
                /\ train_catalog'[n].course # train_catalog[n].course
                /\ train_catalog'[n].course \in Courses
                /\ FailedBefore(n) => train_catalog'[n].course = turn_log[n].course
    ]_vars

\* a train of line C that the first step took from A to C, where nothing
\* is of its line: the moves of the second and the third step failed, and
\* the train has the course it was seeded with
C23_Witness ==
    /\ pc = "running"
    /\ stations_list = <<<<"A", 0>>, <<"C", 0>>>>
    /\ connections_list = <<<<"A", "A", "C", "S">>, <<"A", "C", "L1", "N">>>>
    /\ seeded = <<Train(1, "A", "C", "N")>>
    /\ turns = 3
    /\ turn_log[1].calls = 1
    /\ ~turn_log[1].ret
    /\ turn_log[1].course = "S"
    /\ train_catalog[1] = Train(1, "C", "C", "N")

\* no station is twice in explored: a station is appended after the one
\* pass that queued its neighbours, and a path that ends at an explored
\* station queues nothing
ExploredOnce ==
    \A i, j \in DOMAIN explored : explored[i] = explored[j] => i = j

\* the number of neighbour entries of the stations of S
RECURSIVE Entries(_, _)
Entries(g, S) ==
    IF S = {} THEN 0
    ELSE LET n == CHOOSE m \in S : TRUE
         IN  Len(g[n]) + Entries(g, S \ {n})

\* the stations whose neighbours have been queued: the explored ones, and
\* the one whose neighbour was the goal
Expanded ==
    Range(explored) \cup
        (IF Searched /\ result # <<>> THEN {result[Len(result) - 1]} ELSE {})

\* the queue holds no more than the root path and one path for each
\* neighbour entry of each expanded station
QueuedOnce == Len(queue) <= 1 + Entries(graph, Expanded)

\* C22: every search ends, on graphs with cycles and duplicate edges too,
\* and during a search no station has its neighbours queued twice.
C22_BfsTermination ==
    /\ <>Searched
    /\ [](ExploredOnce /\ QueuedOnce)

\* a search that ended without a path on a graph where the start lies on
\* a cycle and has the same neighbour twice
C22_Witness ==
    /\ Searched
    /\ result = <<>>
    /\ Len(graph[start]) >= 2
    /\ graph[start][1] = graph[start][2]
    /\ graph[start][1] # start
    /\ start \in AfterHops(graph, {start}, 2)
    /\ Len(explored) = 2

\* no connection record leads from a station to that station
NoSelfLoop ==
    \A i \in DOMAIN connections_list :
        connections_list[i][1] # connections_list[i][2]

\* a turn in which train n is not delayed: move is called for it
NotDelayed(n) ==
    /\ pc = "running"
    /\ n \in DOMAIN train_catalog
    /\ turn_log'[n].calls = 1

\* a turn after which train n is at another station
ChangesStation(n) ==
    /\ pc = "running"
    /\ n \in DOMAIN train_catalog
    /\ train_catalog'[n].station # train_catalog[n].station

\* C21: in a loaded network, without a record from a station to itself
\* and with every delay probability below 1, a train that is not delayed
\* infinitely often changes station infinitely often.
C21_Progress ==
    \A n \in 1..MaxTrains :
        ([]NoSelfLoop /\ []<><<NotDelayed(n)>>_vars) => []<><<ChangesStation(n)>>_vars

====
